---- MODULE Spec2Model ----
(***************************************************************************)
(* Model of src/preprocessing.py: list_files, read_and_format_data,        *)
(* check_file_processing and compile_data, over a small file system.       *)
(*                                                                         *)
(* Strings that the code inspects character by character (paths, file      *)
(* names, dataset names) are tuples of one-character strings.  Numbers are *)
(* exact rationals <<num, den>> in lowest terms with den > 0, so binary    *)
(* floating-point round-off is abstracted away.                            *)
(***************************************************************************)
EXTENDS Integers, Sequences, FiniteSets, TLC

VARIABLES
    fs,           \* the file system
    run_directory, \* the source directory the run compiles
    run_dataset,   \* the dataset tag the run compiles
    op,           \* the function called last
    call,         \* its arguments
    result,       \* its outcome and return value
    events,       \* the file-system and console operations it performed
    files,        \* the paths list_files returned to it
    data_frames   \* the tables read_and_format_data returned to it

vars == <<fs, run_directory, run_dataset, op, call, result, events, files,
          data_frames>>

\* ---------------------------------------------------------------- bounds
\* rows in the source directory, over all its files
MaxRows == 2

\* ------------------------------------------------------------- rationals
RECURSIVE GCD(_, _)
GCD(a, b) == IF b = 0 THEN a ELSE GCD(b, a % b)

Abs(n) == IF n < 0 THEN -n ELSE n

Rat(n, d) ==
    LET g == GCD(Abs(n), Abs(d))
        s == IF d < 0 THEN -1 ELSE 1
    IN  <<(s * n) \div g, (s * d) \div g>>

RatMul(a, b) == Rat(a[1] * b[1], a[2] * b[2])
RatSub(a, b) == Rat(a[1] * b[2] - b[1] * a[2], a[2] * b[2])
RatDiv(a, b) == Rat(a[1] * b[2], a[2] * b[1])
RatNeg(a) == a[1] < 0
One == Rat(1, 1)
Zero == Rat(0, 1)

\* --------------------------------------------------------------- strings
Join(a, b) == a \o <<"/">> \o b

Contains(sub, s) ==
    \E i \in 0..(Len(s) - Len(sub)) : SubSeq(s, i + 1, i + Len(sub)) = sub

Upper(r) ==
    CASE r = "s" -> "S"
      [] r = "n" -> "N"
      [] OTHER -> r

\* ----------------------------------------------------------------- paths
cwd == <<"w">>
src_dir == Join(cwd, <<"S">>)
data_dir == Join(cwd, <<"d", "a", "t", "a">>)
output_dir == Join(data_dir, <<"o", "u", "t", "p", "u", "t">>)

OutputName(dataset_name) ==
    <<"d", "a", "d", "o", "s", "_", "c", "o", "m", "p", "i", "l", "a", "d",
      "o", "s", "_">> \o dataset_name \o <<".", "c", "s", "v">>

output_file(dataset_name) == Join(output_dir, OutputName(dataset_name))

\* ----------------------------------------------------- input value space
DatasetNames == {<<"S">>, <<"M">>}
Directories == {src_dir, output_dir}
SourceNames == {<<"S", "1">>, <<"M", "1">>}
Responses == {"S", "s", "N", "n", "X"}
TransformerLosses == {Rat(3, 1000), Rat(1, 2)}
TransmissionLosses == {Rat(1, 100)}

\* raw index text "dd/mm/yy HH:MM" as <<dd, mm, yy, HH, MM>>
RawRows ==
    {[stamp |-> <<31, 12, 99, 23, 30>>, kW |-> 2000],
     [stamp |-> <<1, 2, 20, 0, 0>>, kW |-> -5],
     [stamp |-> <<1, 13, 20, 0, 0>>, kW |-> 2000]}

SeqsUpTo(S, n) == UNION {[1..k -> S] : k \in 0..n}

RawContents == [kind : {"raw"}, rows : SeqsUpTo(RawRows, MaxRows)]

\* ----------------------------------------------------------- file system
\* fs.dirs: the directories that exist; fs.entries[d]: the entries of d in
\* os.listdir order, each with its name and content.
Exists(f, dir, name) ==
    /\ dir \in f.dirs
    /\ \E i \in 1..Len(f.entries[dir]) : f.entries[dir][i].name = name

ContentOf(f, dir, name) ==
    LET i == CHOOSE i \in 1..Len(f.entries[dir]) : f.entries[dir][i].name = name
    IN  f.entries[dir][i].content

listdir(f, directory) ==
    [i \in 1..Len(f.entries[directory]) |-> f.entries[directory][i].name]

makedirs(f) == [f EXCEPT !.dirs = @ \cup {data_dir, output_dir}]

InsertAt(s, pos, e) == SubSeq(s, 1, pos) \o <<e>> \o SubSeq(s, pos + 1, Len(s))

WriteFile(f, dir, name, content, pos) ==
    IF Exists(f, dir, name)
    THEN [f EXCEPT !.entries[dir] =
            [i \in 1..Len(@) |->
                IF @[i].name = name THEN [name |-> name, content |-> content]
                ELSE @[i]]]
    ELSE [f EXCEPT !.entries[dir] =
            InsertAt(@, pos, [name |-> name, content |-> content])]

\* ------------------------------------------------------------ list_files
\* "dataset_name in file_path" is tested on the joined path.
list_files(f, directory, dataset_name) ==
    LET names == listdir(f, directory)
        paths == [i \in 1..Len(names) |-> Join(directory, names[i])]
    IN  SelectSeq(paths, LAMBDA file_path : Contains(dataset_name, file_path))

\* the content behind a path returned by list_files(f, directory, _)
ContentAt(f, directory, file_path) ==
    LET i == CHOOSE i \in 1..Len(f.entries[directory]) :
                 Join(directory, f.entries[directory][i].name) = file_path
    IN  f.entries[directory][i].content

\* --------------------------------------------------- read_and_format_data
SkipRows == 11

\* number of text lines of a CSV written by to_csv: header plus one per row
CsvLines(content) == 1 + Len(content.rows)

\* pd.read_csv(file_path, skiprows=11, sep=";", index_col=0, decimal=",")
\* A raw export gives one row per record, index text and kW.  A file written
\* by to_csv has no ";": with at most 11 lines nothing is left to parse, with
\* 12 lines line 12 is taken as the header of an empty table, with more lines
\* each remaining line becomes an index label.
read_csv_raw(content) ==
    IF content.kind = "raw"
    THEN [err |-> "none",
          df |-> [i \in 1..Len(content.rows) |->
                    [index |-> content.rows[i].stamp,
                     Energy |-> Rat(content.rows[i].kW, 1)]]]
    ELSE IF CsvLines(content) <= SkipRows
         THEN [err |-> "EmptyDataError", df |-> <<>>]
         ELSE [err |-> "none",
               df |-> [i \in 1..(CsvLines(content) - SkipRows - 1) |->
                         [index |-> content.rows[i + SkipRows].stamp,
                          Energy |-> Zero]]]

ConvertUnits(x) == RatDiv(x, Rat(1000, 1))

ClampIdentity(x) == x
Clamp(x) == IF RatNeg(x) THEN Zero ELSE x

IsLeap(year) == year % 4 = 0 /\ (year % 100 # 0 \/ year % 400 = 0)

DaysInMonth(year, month) ==
    IF month = 2 THEN (IF IsLeap(year) THEN 29 ELSE 28)
    ELSE IF month \in {4, 6, 9, 11} THEN 30 ELSE 31

\* strptime %y: 69..99 -> 1969..1999, 00..68 -> 2000..2068
FullYear(yy) == IF yy >= 69 THEN 1900 + yy ELSE 2000 + yy

\* does the index text match "%d/%m/%y %H:%M"
MatchesFormat(stamp) ==
    /\ Len(stamp) = 5
    /\ stamp[3] \in 0..99
    /\ stamp[2] \in 1..12
    /\ stamp[1] \in 1..DaysInMonth(FullYear(stamp[3]), stamp[2])
    /\ stamp[4] \in 0..23
    /\ stamp[5] \in 0..59

to_datetime(stamp) ==
    [year |-> FullYear(stamp[3]), month |-> stamp[2], day |-> stamp[1],
     hour |-> stamp[4], minute |-> stamp[5]]

read_and_format_data(content) ==
    LET r == read_csv_raw(content)
        scaled == [i \in 1..Len(r.df) |->
                     [r.df[i] EXCEPT !.Energy = Clamp(ConvertUnits(@))]]
    IN  IF r.err # "none" THEN [err |-> r.err, df |-> <<>>]
        ELSE IF \E i \in 1..Len(scaled) : ~MatchesFormat(scaled[i].index)
        THEN [err |-> "ValueError", df |-> <<>>]
        ELSE [err |-> "none",
              df |-> [i \in 1..Len(scaled) |->
                        [scaled[i] EXCEPT !.index = to_datetime(@)]]]

\* ------------------------------------------------- check_file_processing
\* ret: "True", "False", or the exception raised; events: what the call did
check_file_processingAcceptAny(f, dataset_name, user_response) ==
    IF Exists(f, output_dir, OutputName(dataset_name))
    THEN [ret |-> IF Upper(user_response) = "N" THEN "False" ELSE "True",
          events |-> <<"exists", "input">>]
    ELSE [ret |-> "True", events |-> <<"exists">>]

check_file_processingCaseSensitive(f, dataset_name, user_response) ==
    IF Exists(f, output_dir, OutputName(dataset_name))
    THEN [ret |-> IF user_response = "S" THEN "True"
                  ELSE IF user_response = "N" THEN "False"
                  ELSE "ValueError",
          events |-> <<"exists", "input">>]
    ELSE [ret |-> "True", events |-> <<"exists">>]

check_file_processing(f, dataset_name, user_response) ==
    IF Exists(f, output_dir, OutputName(dataset_name))
    THEN [ret |-> IF Upper(user_response) = "S" THEN "True"
                  ELSE IF Upper(user_response) = "N" THEN "False"
                  ELSE "ValueError",
          events |-> <<"exists", "input">>]
    ELSE [ret |-> "True", events |-> <<"exists">>]

\* ---------------------------------------------------------- compile_data
\* the loop of lines 119-128: parse the files in order, stop at the first
\* file that fails
RECURSIVE ParseAllSkipping(_, _, _)
ParseAllSkipping(f, directory, fileseq) ==
    IF fileseq = <<>> THEN [err |-> "none", frames |-> <<>>, events |-> <<>>]
    ELSE LET r == read_and_format_data(ContentAt(f, directory, Head(fileseq)))
             rest == ParseAllSkipping(f, directory, Tail(fileseq))
         IN  IF r.err # "none"
             THEN [rest EXCEPT !.events = <<"read_csv">> \o @]
             ELSE [err |-> rest.err, frames |-> <<r.df>> \o rest.frames,
                   events |-> <<"read_csv">> \o rest.events]

RECURSIVE ParseAll(_, _, _)
ParseAll(f, directory, fileseq) ==
    IF fileseq = <<>> THEN [err |-> "none", frames |-> <<>>, events |-> <<>>]
    ELSE LET r == read_and_format_data(ContentAt(f, directory, Head(fileseq)))
             rest == ParseAll(f, directory, Tail(fileseq))
         IN  IF r.err # "none"
             THEN [err |-> r.err, frames |-> <<>>,
                   events |-> <<"read_csv">>]
             ELSE [err |-> rest.err, frames |-> <<r.df>> \o rest.frames,
                   events |-> <<"read_csv">> \o rest.events]

\* pd.concat(data_frames, axis=0)
RECURSIVE Flatten(_)
Flatten(frames) ==
    IF frames = <<>> THEN <<>> ELSE Head(frames) \o Flatten(Tail(frames))

RECURSIVE DropDuplicates(_, _)
DropDuplicates(df, seen) ==
    IF df = <<>> THEN <<>>
    ELSE IF Head(df).index \in seen THEN DropDuplicates(Tail(df), seen)
    ELSE <<Head(df)>> \o DropDuplicates(Tail(df), seen \cup {Head(df).index})

concatDeduplicated(frames) ==
    IF frames = <<>> THEN [err |-> "ValueError", df |-> <<>>]
    ELSE [err |-> "none", df |-> DropDuplicates(Flatten(frames), {})]

concat(frames) ==
    IF frames = <<>> THEN [err |-> "ValueError", df |-> <<>>]
    ELSE [err |-> "none", df |-> Flatten(frames)]

\* compiled_df *= (1 - transformer_loss) * (1 - transmission_loss)
LossFactor(transformer_loss, transmission_loss) ==
    RatMul(RatSub(One, transformer_loss), RatSub(One, transmission_loss))

ApplyLosses(df, transformer_loss, transmission_loss) ==
    [i \in 1..Len(df) |->
        [df[i] EXCEPT !.Energy =
            RatMul(@, LossFactor(transformer_loss, transmission_loss))]]

\* DataFrame.to_csv: the index is written as ISO text
\* <<year, month, day, hour, minute, second>>
FormatTimestampDateOnly(t) == <<t.year, t.month, t.day, 0, 0, 0>>

FormatTimestamp(t) == <<t.year, t.month, t.day, t.hour, t.minute, 0>>

to_csv(df) ==
    [kind |-> "csv",
     rows |-> [i \in 1..Len(df) |->
                 [stamp |-> FormatTimestamp(df[i].index),
                  Energy |-> df[i].Energy]]]

\* pd.read_csv(output_file, index_col=0, parse_dates=True) of a file that
\* to_csv wrote
ParseDate(stamp) ==
    [year |-> stamp[1], month |-> stamp[2], day |-> stamp[3],
     hour |-> stamp[4], minute |-> stamp[5]]

read_compiled(content) ==
    [i \in 1..Len(content.rows) |->
        [index |-> ParseDate(content.rows[i].stamp),
         Energy |-> content.rows[i].Energy]]

NoResult(err, ev, f) ==
    [outcome |-> err, value |-> <<>>, events |-> ev, files |-> <<>>,
     data_frames |-> <<>>, fs |-> f]

\* lines 137-139
PersistAlways(f, a, compiled_df, pos) ==
    WriteFile(makedirs(f), output_dir, OutputName(a.dataset_name),
              to_csv(compiled_df), pos)

Persist(f, a, compiled_df, pos) ==
    IF a.save_data
    THEN WriteFile(makedirs(f), output_dir, OutputName(a.dataset_name),
                   to_csv(compiled_df), pos)
    ELSE f

\* lines 117-141; pos is the place os.listdir gives a newly created file
FreshCompile(f, a, pos) ==
    IF a.directory \notin f.dirs
    THEN NoResult("OSError", <<"listdir">>, f)
    ELSE
    LET fl == list_files(f, a.directory, a.dataset_name)
        p == ParseAll(f, a.directory, fl)
        c == concat(p.frames)
        compiled_df == ApplyLosses(c.df, a.transformer_loss, a.transmission_loss)
        ev == <<"listdir">> \o p.events
    IN  IF p.err # "none"
        THEN [outcome |-> p.err, value |-> <<>>, events |-> ev,
              files |-> fl, data_frames |-> p.frames, fs |-> f]
        ELSE IF c.err # "none"
        THEN [outcome |-> c.err, value |-> <<>>, events |-> ev \o <<"concat">>,
              files |-> fl, data_frames |-> p.frames, fs |-> f]
        ELSE [outcome |-> "ok", value |-> compiled_df,
              events |-> ev \o <<"concat">> \o
                         (IF a.save_data THEN <<"makedirs", "to_csv">>
                          ELSE <<>>),
              files |-> fl, data_frames |-> p.frames,
              fs |-> Persist(f, a, compiled_df, pos)]

ReuseRescaled(f, a) ==
    [outcome |-> "ok",
     value |-> ApplyLosses(
         read_compiled(ContentOf(f, output_dir, OutputName(a.dataset_name))),
         a.transformer_loss, a.transmission_loss),
     events |-> <<"read_output">>, files |-> <<>>, data_frames |-> <<>>,
     fs |-> f]

\* line 143
Reuse(f, a) ==
    [outcome |-> "ok",
     value |-> read_compiled(ContentOf(f, output_dir, OutputName(a.dataset_name))),
     events |-> <<"read_output">>, files |-> <<>>, data_frames |-> <<>>,
     fs |-> f]

Prepend(ev, r) == [r EXCEPT !.events = ev \o @]

compile_data(f, a, pos) ==
    LET process == check_file_processing(f, a.dataset_name, a.user_response)
    IN  IF process.ret = "ValueError"
        THEN NoResult("ValueError", process.events, f)
        ELSE IF process.ret = "True"
        THEN Prepend(process.events, FreshCompile(f, a, pos))
        ELSE Prepend(process.events, Reuse(f, a))

\* ------------------------------------------------------------ state machine
NoCall ==
    [directory |-> <<>>, dataset_name |-> <<>>, transformer_loss |-> Zero,
     transmission_loss |-> Zero, save_data |-> FALSE, user_response |-> "",
     file |-> <<>>]

NoOutcome == [outcome |-> "none", value |-> <<>>]

RECURSIVE TotalRows(_)
TotalRows(l) ==
    IF l = <<>> THEN 0 ELSE Len(Head(l).content.rows) + TotalRows(Tail(l))

\* the source directory holds raw exports under distinct names, in any
\* listing order, with at most MaxRows rows between them
Listings ==
    {l \in SeqsUpTo([name : SourceNames, content : RawContents],
                    Cardinality(SourceNames)) :
        /\ \A i, j \in 1..Len(l) : l[i].name = l[j].name => i = j
        /\ TotalRows(l) <= MaxRows}

\* a run compiles one dataset from one directory, which is cwd/S or the
\* output directory itself; in the output directory the two dataset names
\* are interchangeable (swap S1 and M1), so one of them is kept
Init ==
    /\ run_directory \in Directories
    /\ run_dataset \in DatasetNames
    /\ run_directory = output_dir => run_dataset = <<"M">>
    /\ \E l \in Listings :
          fs = [dirs |-> IF run_directory = output_dir
                         THEN {cwd, src_dir, data_dir, output_dir}
                         ELSE {cwd, src_dir},
                entries |-> [x \in Directories |->
                               IF x = run_directory THEN l ELSE <<>>]]
    /\ op = "none"
    /\ call = NoCall
    /\ result = NoOutcome
    /\ events = <<>>
    /\ files = <<>>
    /\ data_frames = <<>>

\* what the user types: nothing is read from the console unless the prompt
\* is shown
Answers(f, n) ==
    IF Exists(f, output_dir, OutputName(n)) THEN Responses ELSE {""}

\* where os.listdir places the output file once it is created
Slots(f, n) ==
    IF Exists(f, output_dir, OutputName(n)) THEN {0}
    ELSE 0..Len(f.entries[output_dir])

CompileData ==
    \E transformer_loss \in TransformerLosses,
       transmission_loss \in TransmissionLosses,
       save_data \in BOOLEAN,
       user_response \in Answers(fs, run_dataset),
       pos \in Slots(fs, run_dataset) :
       LET a == [directory |-> run_directory, dataset_name |-> run_dataset,
                 transformer_loss |-> transformer_loss,
                 transmission_loss |-> transmission_loss,
                 save_data |-> save_data,
                 user_response |-> user_response,
                 file |-> <<>>]
       IN  \E r \in {compile_data(fs, a, pos)} :
              /\ op' = "compile_data"
              /\ call' = a
              /\ result' = [outcome |-> r.outcome, value |-> r.value]
              /\ events' = r.events
              /\ files' = r.files
              /\ data_frames' = r.data_frames
              /\ fs' = r.fs
              /\ UNCHANGED <<run_directory, run_dataset>>

\* list_files called on its own
ListFiles ==
    \E d \in Directories, n \in DatasetNames :
       /\ d \in fs.dirs
       /\ op' = "list_files"
       /\ call' = [NoCall EXCEPT !.directory = d, !.dataset_name = n]
       /\ result' = [outcome |-> "ok", value |-> <<>>]
       /\ events' = <<"listdir">>
       /\ files' = list_files(fs, d, n)
       /\ data_frames' = <<>>
       /\ UNCHANGED <<fs, run_directory, run_dataset>>

\* read_and_format_data called on its own, with compile_data's parsing options
ReadAndFormatData ==
    \E d \in Directories :
       \E i \in 1..Len(fs.entries[d]) :
          \E r \in {read_and_format_data(fs.entries[d][i].content)} :
              /\ d \in fs.dirs
              /\ op' = "read_and_format_data"
              /\ call' = [NoCall EXCEPT !.directory = d,
                            !.file = fs.entries[d][i].name]
              /\ result' = [outcome |-> IF r.err = "none" THEN "ok" ELSE r.err,
                            value |-> r.df]
              /\ events' = <<"read_csv">>
              /\ files' = <<>>
              /\ data_frames' = <<>>
              /\ UNCHANGED <<fs, run_directory, run_dataset>>

Next == CompileData \/ ListFiles \/ ReadAndFormatData

Spec == Init /\ [][Next]_vars

\* -------------------------------------------------------------- properties
Has(ev, e) == \E i \in 1..Len(ev) : ev[i] = e

\* first position of e in ev, Len(ev) + 1 when absent
First(ev, e) ==
    IF Has(ev, e) THEN CHOOSE i \in 1..Len(ev) :
                           ev[i] = e /\ \A j \in 1..(i - 1) : ev[j] # e
    ELSE Len(ev) + 1

OutputExists(f, n) == Exists(f, output_dir, OutputName(n))
Persisted(f, n) == ContentOf(f, output_dir, OutputName(n))

\* the raw rows behind the paths a call listed, file by file
SourceRows(f, d, fileseq) ==
    Flatten([k \in 1..Len(fileseq) |-> ContentAt(f, d, fileseq[k]).rows])

\* a table row is the parsed, clamped and loss-scaled image of a raw row
RowFrom(row, raw, factor) ==
    /\ row.index.day = raw.stamp[1]
    /\ row.index.month = raw.stamp[2]
    /\ row.index.year % 100 = raw.stamp[3]
    /\ row.index.year \in 1969..2068
    /\ row.index.hour = raw.stamp[4]
    /\ row.index.minute = raw.stamp[5]
    /\ row.Energy = IF raw.kW < 0 THEN Zero
                    ELSE RatMul(Rat(raw.kW, 1000), factor)

\* a table holds, row for row, what a persisted CSV holds
SameAsCsv(df, content) ==
    /\ Len(df) = Len(content.rows)
    /\ \A i \in 1..Len(df) :
          /\ content.rows[i].stamp =
                <<df[i].index.year, df[i].index.month, df[i].index.day,
                  df[i].index.hour, df[i].index.minute, 0>>
          /\ content.rows[i].Energy = df[i].Energy

IsFreshSave(o, c, ev) ==
    /\ o = "compile_data"
    /\ c.save_data
    /\ Upper(c.user_response) \in {"", "S"}
    /\ ~Has(ev, "read_output")

\* C1: two consecutive compile_data calls with save_data=True, the same loss
\* fractions and every prompt answered S end the same way and return the
\* same table, each row being the parsed source value times
\* (1 - transformer_loss) * (1 - transmission_loss).
C1_ScalingIdempotent ==
    [][(IsFreshSave(op, call, events) /\ IsFreshSave(op', call', events')
        /\ call'.transformer_loss = call.transformer_loss
        /\ call'.transmission_loss = call.transmission_loss)
       => /\ result' = result
          /\ result'.outcome = "ok" =>
               LET src == SourceRows(fs, call'.directory, files')
                   k == RatMul(RatSub(One, call'.transformer_loss),
                               RatSub(One, call'.transmission_loss))
               IN  /\ Len(result'.value) = Len(src)
                   /\ \A i \in 1..Len(src) :
                         RowFrom(result'.value[i], src[i], k)]_vars

\* C2: a prompt answered N returns the rows of the existing CSV whatever the
\* loss fractions and save_data are, lists and parses no source file, and
\* leaves the file system as it was.
C2_ReuseReturnsExisting ==
    [][(op' = "compile_data" /\ Upper(call'.user_response) = "N")
       => /\ OutputExists(fs, call'.dataset_name)
          /\ result'.outcome = "ok"
          /\ SameAsCsv(result'.value, Persisted(fs, call'.dataset_name))
          /\ events' = <<"exists", "input", "read_output">>
          /\ files' = <<>>
          /\ data_frames' = <<>>
          /\ fs' = fs]_vars

\* reuse answered with save_data=True and transformer_loss 1/2 returns a row
\* that was persisted under transformer_loss 3/1000
C2_Witness ==
    /\ op = "compile_data"
    /\ call.user_response = "N"
    /\ call.save_data
    /\ call.transformer_loss = Rat(1, 2)
    /\ \E i \in 1..Len(result.value) :
          result.value[i].Energy = Rat(2 * 997 * 99, 100000)

\* C3: when the output CSV exists and the answer is neither S nor N in any
\* letter case, compile_data raises ValueError right after the prompt: no
\* source is listed or read, no directory is created, nothing is written.
C3_InvalidAnswerRaises ==
    [][(op' = "compile_data" /\ OutputExists(fs, call'.dataset_name)
        /\ call'.user_response \notin {"S", "s", "N", "n"})
       => /\ result' = [outcome |-> "ValueError", value |-> <<>>]
          /\ events' = <<"exists", "input">>
          /\ files' = <<>>
          /\ fs' = fs]_vars

C3_Witness ==
    /\ op = "compile_data"
    /\ call.user_response = "X"
    /\ call.save_data
    /\ result.outcome = "ValueError"
    /\ OutputExists(fs, call.dataset_name)

\* C4: the prompt is issued exactly when the output CSV exists at the call,
\* and before any source file is listed or read; without the file the call
\* compiles afresh unprompted, with it S or s compiles afresh and N or n
\* reuses the CSV.
C4_PromptGate ==
    [][op' = "compile_data"
       => /\ Has(events', "input") <=> OutputExists(fs, call'.dataset_name)
          /\ First(events', "input") < First(events', "listdir")
                \/ ~Has(events', "input")
          /\ First(events', "listdir") < First(events', "read_csv")
                \/ ~Has(events', "read_csv")
          /\ ~OutputExists(fs, call'.dataset_name)
                => events'[2] = "listdir"
          /\ (OutputExists(fs, call'.dataset_name)
              /\ call'.user_response \in {"S", "s"})
                => events'[3] = "listdir"
          /\ (OutputExists(fs, call'.dataset_name)
              /\ call'.user_response \in {"N", "n"})
                => events' = <<"exists", "input", "read_output">>]_vars

\* a lower-case s at the prompt started a fresh compilation that read a file
C4_Witness ==
    /\ op = "compile_data"
    /\ call.user_response = "s"
    /\ SubSeq(events, 1, 4) = <<"exists", "input", "listdir", "read_csv">>

\* C5: every table read_and_format_data returns for a raw export has one row
\* per input row, in input order, indexed by the parsed timestamp, with
\* Energy = max(0, kW / 1000).
C5_Table(df, content) ==
    /\ Len(df) = Len(content.rows)
    /\ \A i \in 1..Len(df) :
          /\ RowFrom(df[i], content.rows[i], One)
          /\ df[i].Energy[1] >= 0

C5_ClampingLaw ==
    /\ (op = "read_and_format_data" /\ result.outcome = "ok"
        /\ ContentOf(fs, call.directory, call.file).kind = "raw")
          => C5_Table(result.value, ContentOf(fs, call.directory, call.file))
    /\ op = "compile_data"
          => \A k \in 1..Len(data_frames) :
                ContentAt(fs, call.directory, files[k]).kind = "raw"
                   => C5_Table(data_frames[k],
                               ContentAt(fs, call.directory, files[k]))

\* a file with a row of -5 kW followed by a row of 2000 kW was parsed to 0, 2
C5_Witness ==
    /\ op = "read_and_format_data"
    /\ result.outcome = "ok"
    /\ Len(result.value) = 2
    /\ ContentOf(fs, call.directory, call.file).rows[1].kW = -5
    /\ result.value[1].Energy = Zero
    /\ result.value[2].Energy = Rat(2, 1)

\* C6: a fresh compilation returns one row per row of the listed files, file
\* by file in listing order and row by row in file order, duplicates kept.
C6_RowsPreserved ==
    (op = "compile_data" /\ result.outcome = "ok" /\ Has(events, "listdir"))
       => LET src == SourceRows(fs, call.directory, files)
              k == RatMul(RatSub(One, call.transformer_loss),
                          RatSub(One, call.transmission_loss))
          IN  /\ Len(result.value) = Len(src)
              /\ \A i \in 1..Len(src) : RowFrom(result.value[i], src[i], k)

\* two files of one row each with the same timestamp gave two rows
C6_Witness ==
    /\ op = "compile_data"
    /\ result.outcome = "ok"
    /\ Len(files) = 2
    /\ Len(data_frames[1]) = 1
    /\ Len(result.value) = 2
    /\ result.value[1].index = result.value[2].index

\* C7: list_files returns, in directory order, exactly the entries whose own
\* name contains dataset_name.
C7_NameFilter ==
    op = "list_files"
       => LET names == listdir(fs, call.directory)
              own == SelectSeq(names,
                        LAMBDA n : Contains(call.dataset_name, n))
          IN  files = [i \in 1..Len(own) |-> Join(call.directory, own[i])]

Unparsable(content) ==
    \/ /\ content.kind = "raw"
       /\ \E i \in 1..Len(content.rows) : content.rows[i].stamp[2] \notin 1..12
    \/ /\ content.kind = "csv"
       /\ Len(content.rows) + 1 < 12

\* C9: a fresh compilation in which a listed file cannot be parsed, or no
\* file is listed, fails, returns no table and leaves the file system as it
\* was, whatever save_data is.
C9_AllOrNothing ==
    [][(op' = "compile_data" /\ Has(events', "listdir")
        /\ \/ files' = <<>>
           \/ \E k \in 1..Len(files') :
                 Unparsable(ContentAt(fs, call'.directory, files'[k])))
       => /\ result'.outcome \in {"ValueError", "EmptyDataError"}
          /\ result'.value = <<>>
          /\ fs' = fs]_vars

\* with save_data=True and an existing CSV, the second listed file failed
\* after the first had been parsed
C9_Witness ==
    /\ op = "compile_data"
    /\ call.save_data
    /\ call.user_response = "S"
    /\ result.outcome # "ok"
    /\ Len(files) = 2
    /\ Len(data_frames) = 1
    /\ OutputExists(fs, call.dataset_name)

\* the last call compiled afresh without saving and the persisted CSV holds
\* other values than the table it returned
C10_Stale ==
    /\ op = "compile_data"
    /\ ~call.save_data
    /\ Upper(call.user_response) = "S"
    /\ result.outcome = "ok"
    /\ OutputExists(fs, call.dataset_name)
    /\ ~SameAsCsv(result.value, Persisted(fs, call.dataset_name))

\* C10: the file system changes only in a call that compiled afresh with
\* save_data=True and succeeded, and then only by the output directory and
\* the call's output CSV; after a fresh compilation with save_data=False
\* that left the persisted CSV stale, a call answered N returns the persisted
\* rows, not the table just returned.
C10_WriteOnlyOnSave ==
    [][/\ fs' # fs
          => /\ op' = "compile_data"
             /\ call'.save_data
             /\ Upper(call'.user_response) # "N"
             /\ result'.outcome = "ok"
             /\ fs'.dirs = fs.dirs \cup {data_dir, output_dir}
             /\ SameAsCsv(result'.value, Persisted(fs', call'.dataset_name))
             /\ \A d \in Directories :
                   \A i \in 1..Len(fs.entries[d]) :
                      fs.entries[d][i].name # OutputName(call'.dataset_name)
                         => \E j \in 1..Len(fs'.entries[d]) :
                               fs'.entries[d][j] = fs.entries[d][i]
       /\ (C10_Stale /\ op' = "compile_data"
           /\ Upper(call'.user_response) = "N")
          => /\ result'.value # result.value
             /\ SameAsCsv(result'.value, Persisted(fs, call.dataset_name))]_vars
====
